---- MODULE Spec2Model ----
(***************************************************************************)
(* A model of clap's match-result store, src/args/arg_matches.rs:          *)
(* the ArgMatches struct, its query API and the value iterators.           *)
(*                                                                         *)
(* Encodings.                                                              *)
(*   Option<T>        a sequence of length <= 1: None = <<>>, Some(x) =    *)
(*                    <<x>>.                                               *)
(*   OsString/OsStr   a sequence of bytes.  The bytes of the model are     *)
(*                    ASCII bytes (< 128) and 255, a byte that occurs in   *)
(*                    no valid UTF-8 text.                                 *)
(*   str/String       a sequence of code points.                           *)
(*   VecMap<OsString> the vector of its slots, Vec<Option<OsString>>;      *)
(*                    slot i of the code is element i + 1 here.            *)
(*   HashMap          a function whose DOMAIN is the set of its keys.      *)
(*   a panic          the variable panicked; it ends the behaviour.        *)
(***************************************************************************)
EXTENDS Integers, Sequences, FiniteSets

VARIABLES
    matches,    \* the root ArgMatches handed to the caller
    self,       \* the ArgMatches the caller is querying (the root or a nested one)
    last,       \* the most recent query call: [recv, op, name, ret]
    it,         \* the caller's value iterator: [recv, kind, name, ret, fwd, bwd,
                \* fidx, bidx, ended, hint]
    other,      \* a second value iterator the caller holds, of the same shape
    panicked    \* TRUE once a strict accessor has panicked

vars == <<matches, self, last, it, other, panicked>>

----------------------------------------------------------------------------
(* Bounds of the model *)

\* A store of the model holds at most MaxSize things in all: each bound
\* argument, each of its occurrences, each slot of its slot map, an active
\* subcommand and a recorded usage string count one each.
MaxSize == 4

----------------------------------------------------------------------------
(* Values *)

None == <<>>
Some(x) == <<x>>

\* U+FFFD, the code point to_string_lossy puts in place of an invalid byte.
REPLACEMENT_CHARACTER == 65533

\* The argument and subcommand names of the model ("" is the key of an
\* external subcommand's trailing tokens).
Names == {"", "out"}

\* The raw values of the model: "a" and the one-byte invalid text 0xFF.
RawVals == {<<97>>, <<255>>}

Slots == {None} \cup {Some(v) : v \in RawVals}

\* MatchedArg records of weight at most b.
MatchedArgs(b) ==
    UNION {[occurs : {o}, vals : [1..l -> Slots]] :
              <<o, l>> \in {p \in (0..b) \X (0..b) : p[1] + p[2] <= b}}

\* HashMap::new()
NoArgs == [n \in {} |-> None]

\* HashMap::insert on a key the map does not hold yet.
Insert(args, n, r) == [k \in DOMAIN args \cup {n} |-> IF k = n THEN r ELSE args[k]]

RECURSIVE ArgsSize(_, _)
ArgsSize(args, S) ==
    IF S = {} THEN 0
    ELSE LET n == CHOOSE k \in S : TRUE
         IN 1 + args[n].occurs + Len(args[n].vals) + ArgsSize(args, S \ {n})

\* The args maps with keys in S, of size at most b.
RECURSIVE ArgMaps(_, _)
ArgMaps(S, b) ==
    IF S = {} THEN {NoArgs}
    ELSE LET n == CHOOSE k \in S : TRUE
             rest == ArgMaps(S \ {n}, b)
         IN rest \cup
            UNION {{Insert(a, n, r) : r \in MatchedArgs(b - 1 - ArgsSize(a, DOMAIN a))} :
                      a \in {x \in rest : ArgsSize(x, DOMAIN x) < b}}

Usages == {None, Some("USAGE")}

\* The ArgMatches values of size at most b: the stores a parser can hand over.
RECURSIVE Stores(_)
Stores(b) ==
    UNION {UNION {
        {[args |-> a, subcommand |-> None, usage |-> u]}
        \cup
        {[args |-> a, subcommand |-> Some([name |-> n, matches |-> m]), usage |-> u] :
            n \in Names, m \in Stores(b - 1 - Len(u) - ArgsSize(a, DOMAIN a))}
        : a \in ArgMaps(Names, b - Len(u))} : u \in {x \in Usages : Len(x) <= b}}

AllStores == Stores(MaxSize)

----------------------------------------------------------------------------
(* Text decoding *)

\* OsStr::to_str: the text, when every byte is valid text.
to_str(o) == IF \A i \in 1..Len(o) : o[i] < 128 THEN Some(o) ELSE None

\* OsStr::to_string_lossy: every invalid byte becomes U+FFFD.
to_string_lossy(o) ==
    [i \in 1..Len(o) |-> IF o[i] < 128 THEN o[i] ELSE REPLACEMENT_CHARACTER]

\* OsString::as_os_str, and the deref of values_of_os: the same bytes.
as_os_str(o) == o

\* The outcome of a call that may panic.
Ok(x) == [panic |-> FALSE, ret |-> x]
Panic == [panic |-> TRUE, ret |-> None]

\* Option::expect(INVALID_UTF8)
expect(opt) == IF opt = None THEN Panic ELSE Ok(opt[1])

----------------------------------------------------------------------------
(* Iter: the double-ended iterator over the slots of a VecMap *)

\* VecMap::values(): the cursor pair over all the slots, and the slice
\* iterator (lo, hi: the slots v[lo+1..hi] are still in the slice iterator).
values(vals) ==
    [front |-> 0, back |-> Len(vals), lo |-> 0, hi |-> Len(vals), v |-> vals]

\* slice::Iter::next
slice_next(i) ==
    IF i.lo < i.hi THEN [it |-> [i EXCEPT !.lo = @ + 1], elem |-> Some(i.v[i.lo + 1])]
    ELSE [it |-> i, elem |-> None]

\* slice::Iter::next_back
slice_next_back(i) ==
    IF i.lo < i.hi THEN [it |-> [i EXCEPT !.hi = @ - 1], elem |-> Some(i.v[i.hi])]
    ELSE [it |-> i, elem |-> None]

\* Iter::next that ends at an empty slot instead of skipping it.
Iter_next_no_skip(i) ==
    IF i.front < i.back
    THEN LET s == slice_next(i)
         IN [it |-> [s.it EXCEPT !.front = @ + 1],
             ret |-> IF s.elem # None THEN s.elem[1] ELSE None]
    ELSE [it |-> i, ret |-> None]

\* Iter::next that leaves front alone when it yields.
RECURSIVE Iter_next_keeps_front(_)
Iter_next_keeps_front(i) ==
    IF i.front < i.back
    THEN LET s == slice_next(i)
         IN IF s.elem # None /\ s.elem[1] # None
            THEN [it |-> s.it, ret |-> s.elem[1]]
            ELSE Iter_next_keeps_front([s.it EXCEPT !.front = @ + 1])
    ELSE [it |-> i, ret |-> None]

\* Iter::next: the whole call, [it: the iterator after it, ret: Option<&V>].
RECURSIVE Iter_next(_)
Iter_next(i) ==
    IF i.front < i.back
    THEN LET s == slice_next(i)
         IN IF s.elem # None /\ s.elem[1] # None
            THEN [it |-> [s.it EXCEPT !.front = @ + 1], ret |-> s.elem[1]]
            ELSE Iter_next([s.it EXCEPT !.front = @ + 1])
    ELSE [it |-> i, ret |-> None]

\* Iter::next_back that pulls from the front of the slice iterator.
RECURSIVE Iter_next_back_from_front(_)
Iter_next_back_from_front(i) ==
    IF i.front < i.back
    THEN LET s == slice_next(i)
         IN IF s.elem # None /\ s.elem[1] # None
            THEN [it |-> [s.it EXCEPT !.back = @ - 1], ret |-> s.elem[1]]
            ELSE Iter_next_back_from_front([s.it EXCEPT !.back = @ - 1])
    ELSE [it |-> i, ret |-> None]

\* Iter::next_back that ends at an empty slot instead of skipping it.
Iter_next_back_no_skip(i) ==
    IF i.front < i.back
    THEN LET s == slice_next_back(i)
         IN [it |-> [s.it EXCEPT !.back = @ - 1],
             ret |-> IF s.elem # None THEN s.elem[1] ELSE None]
    ELSE [it |-> i, ret |-> None]

\* Iter::next_back
RECURSIVE Iter_next_back(_)
Iter_next_back(i) ==
    IF i.front < i.back
    THEN LET s == slice_next_back(i)
         IN IF s.elem # None /\ s.elem[1] # None
            THEN [it |-> [s.it EXCEPT !.back = @ - 1], ret |-> s.elem[1]]
            ELSE Iter_next_back([s.it EXCEPT !.back = @ - 1])
    ELSE [it |-> i, ret |-> None]

\* usize subtraction. Below zero it overflows (a panic in a build with
\* overflow checks, a wrapped value in one without): reported as -1.
usize_sub(a, b) == IF a >= b THEN a - b ELSE -1

\* Iter::size_hint
size_hint(i) == <<0, Some(usize_sub(i.back, i.front))>>

\* Values::size_hint and OsValues::size_hint: Map hands on the hint of the
\* iterator it wraps.
Values_size_hint(i) == size_hint(i)

\* to_str_slice that hands out the bytes without the check.
to_str_slice_unchecked(kind, o) == Ok(o)

\* The fn pointer a Values or an OsValues maps over the slots' values.
to_str_slice(kind, o) == IF kind = "str" THEN expect(to_str(o)) ELSE Ok(as_os_str(o))

\* Map::next under Values::next and OsValues::next: [panic, it, ret].
Values_next(kind, i) ==
    LET r == Iter_next(i)
        f == to_str_slice(kind, r.ret[1])
    IN IF r.ret = None THEN [panic |-> FALSE, it |-> r.it, ret |-> None]
       ELSE [panic |-> f.panic, it |-> r.it, ret |-> IF f.panic THEN None ELSE Some(f.ret)]

\* Map::next_back under Values::next_back and OsValues::next_back.
Values_next_back(kind, i) ==
    LET r == Iter_next_back(i)
        f == to_str_slice(kind, r.ret[1])
    IN IF r.ret = None THEN [panic |-> FALSE, it |-> r.it, ret |-> None]
       ELSE [panic |-> f.panic, it |-> r.it, ret |-> IF f.panic THEN None ELSE Some(f.ret)]

\* Iterator::collect over next(), and over next_back() (.rev().collect()).
RECURSIVE collect(_)
collect(i) ==
    LET r == Iter_next(i)
    IN IF r.ret = None THEN <<>> ELSE <<r.ret[1]>> \o collect(r.it)

RECURSIVE collect_rev(_)
collect_rev(i) ==
    LET r == Iter_next_back(i)
    IN IF r.ret = None THEN <<>> ELSE <<r.ret[1]>> \o collect_rev(r.it)

\* Iterator::collect over .map(|v| v.to_string_lossy().into_owned())
RECURSIVE collect_lossy(_)
collect_lossy(i) ==
    LET r == Iter_next(i)
    IN IF r.ret = None THEN <<>>
       ELSE <<to_string_lossy(r.ret[1])>> \o collect_lossy(r.it)

----------------------------------------------------------------------------
(* The query API of ArgMatches; m is the receiver *)

\* value_of answering with the latest value.
value_of_latest(m, name) ==
    IF name \in DOMAIN m.args
    THEN LET v == Iter_next_back(values(m.args[name].vals)).ret
         IN IF v # None
            THEN LET s == expect(to_str(v[1]))
                 IN IF s.panic THEN Panic ELSE Ok(Some(s.ret))
            ELSE Ok(None)
    ELSE Ok(None)

\* value_of decoding every value of the argument before it answers.
value_of_decoding_all(m, name) ==
    IF name \in DOMAIN m.args
    THEN LET all == collect(values(m.args[name].vals))
         IN IF all = <<>> THEN Ok(None)
            ELSE IF \E k \in 1..Len(all) : to_str(all[k]) = None THEN Panic
            ELSE Ok(Some(all[1]))
    ELSE Ok(None)

value_of(m, name) ==
    IF name \in DOMAIN m.args
    THEN LET v == Iter_next(values(m.args[name].vals)).ret
         IN IF v # None
            THEN LET s == expect(to_str(v[1]))
                 IN IF s.panic THEN Panic ELSE Ok(Some(s.ret))
            ELSE Ok(None)
    ELSE Ok(None)

value_of_lossy(m, name) ==
    IF name \in DOMAIN m.args
    THEN LET v == Iter_next(values(m.args[name].vals)).ret
         IN IF v # None THEN Some(to_string_lossy(v[1])) ELSE None
    ELSE None

value_of_os(m, name) ==
    IF name \in DOMAIN m.args
    THEN LET v == Iter_next(values(m.args[name].vals)).ret
         IN IF v # None THEN Some(as_os_str(v[1])) ELSE None
    ELSE None

\* values_of that takes the empty name for no name at all.
values_of_nonempty(m, name) ==
    IF name # "" /\ name \in DOMAIN m.args THEN Some(values(m.args[name].vals)) ELSE None

values_of(m, name) ==
    IF name \in DOMAIN m.args THEN Some(values(m.args[name].vals)) ELSE None

values_of_lossy(m, name) ==
    IF name \in DOMAIN m.args
    THEN Some(collect_lossy(values(m.args[name].vals)))
    ELSE None

\* values_of_os answering an unbound name with an empty sequence.
values_of_os_or_empty(m, name) ==
    IF name \in DOMAIN m.args THEN Some(values(m.args[name].vals)) ELSE Some(values(<<>>))

values_of_os(m, name) ==
    IF name \in DOMAIN m.args THEN Some(values(m.args[name].vals)) ELSE None

\* is_present without the check of the active subcommand's name.
is_present_args_only(m, name) == name \in DOMAIN m.args

is_present(m, name) ==
    IF m.subcommand # None /\ m.subcommand[1].name = name THEN TRUE
    ELSE name \in DOMAIN m.args

\* occurrences_of counting the values instead of the occurrences.
occurrences_of_values(m, name) ==
    IF name \in DOMAIN m.args
    THEN Cardinality({i \in 1..Len(m.args[name].vals) : m.args[name].vals[i] # None})
    ELSE 0

occurrences_of(m, name) ==
    IF name \in DOMAIN m.args THEN m.args[name].occurs ELSE 0

\* subcommand_matches without the comparison of the names.
subcommand_matches_any_name(m, name) ==
    IF m.subcommand # None THEN Some(m.subcommand[1].matches) ELSE None

subcommand_matches(m, name) ==
    IF m.subcommand # None /\ m.subcommand[1].name = name
    THEN Some(m.subcommand[1].matches)
    ELSE None

subcommand_name(m) ==
    IF m.subcommand # None THEN Some(m.subcommand[1].name) ELSE None

\* subcommand answering with the nested store's own subcommand.
subcommand_of_nested(m) ==
    IF m.subcommand # None
    THEN <<m.subcommand[1].name, m.subcommand[1].matches.subcommand>>
    ELSE <<"", None>>

subcommand(m) ==
    IF m.subcommand # None
    THEN <<m.subcommand[1].name, Some(m.subcommand[1].matches)>>
    ELSE <<"", None>>

usage(m) == IF m.usage # None THEN m.usage[1] ELSE ""

----------------------------------------------------------------------------
(* The state machine: a caller querying the store it was handed *)

\* last: the receiver, the operation, its name argument and what it returned.
NoCall == [recv |-> None, op |-> "none", name |-> "", ret |-> None]

\* it: the receiver and the name of the accessor call, the Option it
\* returned (the iterator in its current state), the items next() and
\* next_back() have yielded so far (fwd, bwd) with the slots the references
\* yielded point to (fidx, bidx), whether one of them returned None, and
\* the size_hint() the caller has taken of the iterator as it now stands.
NoIter == [recv |-> None, kind |-> "none", name |-> "", ret |-> None,
           fwd |-> <<>>, bwd |-> <<>>, fidx |-> <<>>, bidx |-> <<>>, ended |-> FALSE,
           hint |-> None]

Init ==
    /\ matches \in AllStores
    /\ self = matches
    /\ last = NoCall
    /\ it = NoIter
    /\ other = NoIter
    /\ panicked = FALSE

\* A call of a query that returns a plain result.
Call(op, name, r) ==
    /\ ~panicked
    /\ last' = [recv |-> Some(self), op |-> op, name |-> name, ret |-> r.ret]
    /\ panicked' = r.panic
    /\ UNCHANGED <<matches, self, it, other>>

ValueOf == \E name \in Names : Call("value_of", name, value_of(self, name))
ValueOfLossy == \E name \in Names : Call("value_of_lossy", name, Ok(value_of_lossy(self, name)))
ValueOfOs == \E name \in Names : Call("value_of_os", name, Ok(value_of_os(self, name)))
ValuesOfLossy == \E name \in Names : Call("values_of_lossy", name, Ok(values_of_lossy(self, name)))
IsPresent == \E name \in Names : Call("is_present", name, Ok(is_present(self, name)))
OccurrencesOf == \E name \in Names : Call("occurrences_of", name, Ok(occurrences_of(self, name)))
SubcommandMatches == \E name \in Names : Call("subcommand_matches", name, Ok(subcommand_matches(self, name)))
SubcommandName == Call("subcommand_name", "", Ok(subcommand_name(self)))
Subcommand == Call("subcommand", "", Ok(subcommand(self)))
Usage == Call("usage", "", Ok(usage(self)))

\* An all-values accessor that hands out the cursor of the iterator the
\* caller already holds over the same argument, instead of a new one.
NewIter_resumed(kind, name, r) ==
    /\ ~panicked
    /\ it' = [recv |-> Some(self), kind |-> kind, name |-> name,
              ret |-> IF r # None /\ other.ret # None /\ other.recv = Some(self)
                         /\ other.name = name
                      THEN other.ret ELSE r,
              fwd |-> <<>>, bwd |-> <<>>, fidx |-> <<>>, bidx |-> <<>>, ended |-> FALSE,
              hint |-> None]
    /\ UNCHANGED <<matches, self, last, other, panicked>>

\* A call of an all-values accessor that returns an iterator: the caller
\* keeps the Option<Values> or Option<OsValues> it returns.
NewIter(kind, name, r) ==
    /\ ~panicked
    /\ it' = [recv |-> Some(self), kind |-> kind, name |-> name, ret |-> r,
              fwd |-> <<>>, bwd |-> <<>>, fidx |-> <<>>, bidx |-> <<>>, ended |-> FALSE,
              hint |-> None]
    /\ UNCHANGED <<matches, self, last, other, panicked>>

ValuesOf == \E name \in Names : NewIter("str", name, values_of(self, name))
ValuesOfOs == \E name \in Names : NewIter("os", name, values_of_os(self, name))

\* Values::next, OsValues::next on the iterator the caller holds.
IterNext ==
    /\ ~panicked
    /\ it.ret # None
    /\ LET r == Values_next(it.kind, it.ret[1])
       IN /\ it' = [it EXCEPT !.ret = Some(r.it),
                              !.fwd = IF r.ret = None THEN @ ELSE Append(@, r.ret[1]),
                              !.fidx = IF r.ret = None THEN @ ELSE Append(@, r.it.lo),
                              !.hint = None,
                              !.ended = @ \/ (~r.panic /\ r.ret = None)]
          /\ panicked' = r.panic
    /\ UNCHANGED <<matches, self, last, other>>

\* Values::next_back, OsValues::next_back on the iterator the caller holds.
IterNextBack ==
    /\ ~panicked
    /\ it.ret # None
    /\ LET r == Values_next_back(it.kind, it.ret[1])
       IN /\ it' = [it EXCEPT !.ret = Some(r.it),
                              !.bwd = IF r.ret = None THEN @ ELSE Append(@, r.ret[1]),
                              !.bidx = IF r.ret = None THEN @ ELSE Append(@, r.it.hi + 1),
                              !.hint = None,
                              !.ended = @ \/ (~r.panic /\ r.ret = None)]
          /\ panicked' = r.panic
    /\ UNCHANGED <<matches, self, last, other>>

\* Values::size_hint, OsValues::size_hint on the iterator the caller holds.
SizeHint ==
    /\ ~panicked
    /\ it.kind \in {"str", "os"}
    /\ it.ret # None
    /\ it' = [it EXCEPT !.hint = Some(Values_size_hint(it.ret[1]))]
    /\ UNCHANGED <<matches, self, last, other, panicked>>

\* The caller holds two iterators, each a value of its own (Values and
\* OsValues own their cursors), and turns from the one to the other.
Turn ==
    /\ ~panicked
    /\ it.kind \in {"str", "os"}
    /\ it' = other
    /\ other' = it
    /\ UNCHANGED <<matches, self, last, panicked>>

\* The caller goes on to query the nested store a subcommand lookup returned.
Enter ==
    /\ ~panicked
    /\ \/ last.op = "subcommand_matches" /\ last.ret # None /\ self' = last.ret[1]
       \/ last.op = "subcommand" /\ last.ret[2] # None /\ self' = last.ret[2][1]
    /\ UNCHANGED <<matches, last, it, other, panicked>>

\* The query API on the store the caller was handed.
Next ==
    \/ ValueOf \/ ValueOfLossy \/ ValueOfOs
    \/ ValuesOf \/ ValuesOfLossy \/ ValuesOfOs
    \/ IsPresent \/ OccurrencesOf
    \/ SubcommandMatches \/ SubcommandName \/ Subcommand \/ Usage

Spec == Init /\ [][Next]_vars

\* The all-values accessors and the traversal of the sequences they return.
NextIter ==
    \/ ValuesOf \/ ValuesOfLossy \/ ValuesOfOs
    \/ IterNext \/ IterNextBack \/ SizeHint

SpecIter == Init /\ [][NextIter]_vars

\* The descent into the nested stores and the queries made there.
NextSub ==
    \/ SubcommandMatches \/ Subcommand \/ Enter
    \/ ValuesOf \/ ValuesOfOs \/ IterNext \/ IterNextBack

SpecSub == Init /\ [][NextSub]_vars

\* The query API with two iterators traversed side by side.
NextFrame ==
    \/ ValueOf \/ ValueOfLossy \/ ValueOfOs
    \/ ValuesOf \/ ValuesOfLossy \/ ValuesOfOs
    \/ IsPresent \/ OccurrencesOf
    \/ SubcommandMatches \/ SubcommandName \/ Subcommand \/ Usage
    \/ IterNext \/ IterNextBack \/ Turn

\* With two iterators held, whose positions multiply, the stores handed
\* over are the smaller ones.
InitFrame ==
    /\ matches \in Stores(MaxSize - 2)
    /\ self = matches
    /\ last = NoCall
    /\ it = NoIter
    /\ other = NoIter
    /\ panicked = FALSE

SpecFrame == InitFrame /\ [][NextFrame]_vars

----------------------------------------------------------------------------
(* Reference notions the properties are stated with *)

\* The values of the occupied slots, in ascending slot order.
OccupiedVals(vals) ==
    LET occ == SelectSeq(vals, LAMBDA s : s # None)
    IN [i \in 1..Len(occ) |-> occ[i][1]]

Reverse(s) == [i \in 1..Len(s) |-> s[Len(s) + 1 - i]]

\* A raw value is valid text when none of its bytes is outside ASCII.
ValidText(o) == {i \in 1..Len(o) : o[i] >= 128} = {}

HasSub(m) == m.subcommand # None
SubName(m) == m.subcommand[1].name
SubStore(m) == m.subcommand[1].matches
Bound(m, name) == name \in DOMAIN m.args

----------------------------------------------------------------------------
(* Properties *)

\* C1: is_present(name) returns true if and only if name is a key of the
\* receiver's args or the name of its active subcommand; it is false for
\* every other name, the names bound only in the nested store included.
C1_IsPresent ==
    last.op = "is_present" =>
        LET m == last.recv[1]
        IN last.ret = (Bound(m, last.name) \/ (HasSub(m) /\ SubName(m) = last.name))

\* is_present answered true for the active subcommand's name, which the
\* receiver does not bind as an argument.
C1_Witness ==
    /\ last.op = "is_present"
    /\ HasSub(last.recv[1])
    /\ SubName(last.recv[1]) = last.name
    /\ ~Bound(last.recv[1], last.name)
    /\ last.ret = TRUE

\* C2: subcommand_matches(name) returns the nested store if and only if
\* the receiver has an active subcommand named name, and absent otherwise;
\* at most one name yields a store at one nesting level.
C2_SubcommandMatches ==
    /\ last.op = "subcommand_matches" =>
          LET m == last.recv[1]
          IN IF HasSub(m) /\ SubName(m) = last.name
             THEN last.ret = Some(SubStore(m))
             ELSE last.ret = None
    /\ \A n1, n2 \in Names :
          subcommand_matches(self, n1) # None /\ subcommand_matches(self, n2) # None
              => n1 = n2

\* subcommand_matches answered absent for a sibling of the active subcommand.
C2_Witness ==
    /\ last.op = "subcommand_matches"
    /\ HasSub(last.recv[1])
    /\ SubName(last.recv[1]) # last.name
    /\ last.ret = None

\* C3: subcommand() returns ("", absent) exactly when no subcommand is
\* active, and otherwise (n, s) with n what subcommand_name() returns and
\* s what subcommand_matches(n) returns; subcommand_name() is absent
\* exactly when no subcommand is active.
C3_Subcommand ==
    /\ last.op = "subcommand" =>
          LET m == last.recv[1]
          IN /\ (last.ret = <<"", None>>) <=> ~HasSub(m)
             /\ HasSub(m) =>
                   /\ Some(last.ret[1]) = subcommand_name(m)
                   /\ last.ret[2] # None
                   /\ last.ret[2] = subcommand_matches(m, last.ret[1])
                   /\ last.ret[2] = Some(SubStore(m))
    /\ last.op = "subcommand_name" =>
          LET m == last.recv[1]
          IN /\ (last.ret = None) <=> ~HasSub(m)
             /\ HasSub(m) => last.ret = Some(SubName(m))

\* subcommand() answered with the name and the store of an active
\* subcommand whose store binds an argument.
C3_Witness ==
    /\ last.op = "subcommand"
    /\ HasSub(last.recv[1])
    /\ last.ret[2] # None
    /\ DOMAIN last.ret[2][1].args # {}

\* C4: occurrences_of(name) returns the occurrence counter of a bound
\* argument, whatever the number of its values, and 0 for an unbound name.
C4_OccurrencesOf ==
    last.op = "occurrences_of" =>
        LET m == last.recv[1]
        IN IF Bound(m, last.name)
           THEN last.ret = m.args[last.name].occurs
           ELSE last.ret = 0

\* occurrences_of answered 3 for an argument that holds no value.
C4_Witness ==
    /\ last.op = "occurrences_of"
    /\ Bound(last.recv[1], last.name)
    /\ OccupiedVals(last.recv[1].args[last.name].vals) = <<>>
    /\ last.ret = 3

\* occurrences_of answered less than the number of values the argument holds.
C4_WitnessFewer ==
    /\ last.op = "occurrences_of"
    /\ Bound(last.recv[1], last.name)
    /\ last.ret < Len(OccupiedVals(last.recv[1].args[last.name].vals))

\* C5: for a bound argument with m occupied slots, every all-values
\* accessor yields exactly the m values, in ascending slot order and
\* skipping the empty slots (in descending order from the back); with
\* m = 0 the result is present and empty.
C5_AllValues ==
    /\ (last.op = "values_of_lossy" /\ Bound(last.recv[1], last.name)) =>
          LET occ == OccupiedVals(last.recv[1].args[last.name].vals)
          IN last.ret = Some([k \in 1..Len(occ) |-> to_string_lossy(occ[k])])
    /\ (it.kind \in {"str", "os"} /\ Bound(it.recv[1], it.name)) =>
          LET occ == OccupiedVals(it.recv[1].args[it.name].vals)
          IN /\ it.ret # None
             /\ Len(it.fwd) + Len(it.bwd) <= Len(occ)
             /\ it.fwd = SubSeq(occ, 1, Len(it.fwd))
             /\ it.bwd = SubSeq(Reverse(occ), 1, Len(it.bwd))
             /\ it.ended => Len(it.fwd) + Len(it.bwd) = Len(occ)

\* An iterator drained by next() alone over two values with an empty slot
\* between them.
C5_Witness ==
    /\ it.kind \in {"str", "os"}
    /\ Bound(it.recv[1], it.name)
    /\ LET vals == it.recv[1].args[it.name].vals
       IN Len(vals) = 3 /\ vals[1] # None /\ vals[2] = None /\ vals[3] # None
    /\ it.ended
    /\ Len(it.fwd) = 2

\* An iterator over an argument without values, present and drained.
C5_WitnessEmpty ==
    /\ it.kind \in {"str", "os"}
    /\ Bound(it.recv[1], it.name)
    /\ it.recv[1].args[it.name].occurs = 3
    /\ it.ret # None
    /\ it.ended
    /\ it.fwd = <<>> /\ it.bwd = <<>>

\* C6: for a bound argument with one or more values, value_of,
\* value_of_lossy and value_of_os return the earliest-bound value, the
\* first item of the corresponding all-values sequence, never a later one;
\* the repetition of the argument makes none of them fail.
C6_FirstValue ==
    (/\ last.op \in {"value_of", "value_of_lossy", "value_of_os"}
     /\ Bound(last.recv[1], last.name)
     /\ OccupiedVals(last.recv[1].args[last.name].vals) # <<>>) =>
        LET m == last.recv[1]
            first == OccupiedVals(m.args[last.name].vals)[1]
        IN /\ last.op = "value_of" =>
                /\ ValidText(first) => ~panicked
                /\ ~panicked =>
                      /\ last.ret = Some(first)
                      /\ last.ret = Values_next("str", values_of(m, last.name)[1]).ret
           /\ last.op = "value_of_lossy" =>
                /\ ~panicked
                /\ last.ret = Some(to_string_lossy(first))
                /\ last.ret = Some(values_of_lossy(m, last.name)[1][1])
           /\ last.op = "value_of_os" =>
                /\ ~panicked
                /\ last.ret = Some(first)
                /\ last.ret = Values_next("os", values_of_os(m, last.name)[1]).ret

\* value_of answered with the first of two different values.
C6_Witness ==
    /\ last.op = "value_of"
    /\ Bound(last.recv[1], last.name)
    /\ LET occ == OccupiedVals(last.recv[1].args[last.name].vals)
       IN Len(occ) >= 2 /\ occ[1] # occ[2] /\ last.ret = Some(occ[1])
    /\ ~panicked

\* C7 as amended: for a name that is not a key of the receiver's args the
\* six value accessors return absent without a panic and occurrences_of
\* returns 0; is_present returns false unless the name is the name of the
\* active subcommand.
C7_Unbound ==
    /\ (last.op # "none" /\ ~Bound(last.recv[1], last.name)) =>
          /\ last.op \in {"value_of", "value_of_lossy", "value_of_os", "values_of_lossy"}
                => last.ret = None /\ ~panicked
          /\ last.op = "occurrences_of" => last.ret = 0
          /\ last.op = "is_present"
                => last.ret = (HasSub(last.recv[1]) /\ SubName(last.recv[1]) = last.name)
    /\ (it.kind # "none" /\ ~Bound(it.recv[1], it.name)) => it.ret = None
    /\ panicked => Bound(last.recv[1], last.name)

\* C7 as stated: is_present returns false for every name that is not a key
\* of the receiver's args.
C7_Original ==
    /\ (last.op # "none" /\ ~Bound(last.recv[1], last.name)) =>
          /\ last.op \in {"value_of", "value_of_lossy", "value_of_os", "values_of_lossy"}
                => last.ret = None /\ ~panicked
          /\ last.op = "occurrences_of" => last.ret = 0
          /\ last.op = "is_present" => last.ret = FALSE
    /\ (it.kind # "none" /\ ~Bound(it.recv[1], it.name)) => it.ret = None
    /\ panicked => Bound(last.recv[1], last.name)

\* is_present answered false for an unbound name that names no active
\* subcommand, after values_of answered absent for an unbound name.
C7_Witness ==
    /\ last.op = "is_present"
    /\ ~Bound(last.recv[1], last.name)
    /\ last.ret = FALSE
    /\ it.kind = "str"
    /\ ~Bound(it.recv[1], it.name)
    /\ it.ret = None

\* What the cursors of the caller's iterator have pulled from the front
\* and from the back of the argument's slots.
PulledFront == OccupiedVals(SubSeq(it.ret[1].v, 1, it.ret[1].front))
PulledBack ==
    Reverse(OccupiedVals(SubSeq(it.ret[1].v, it.ret[1].back + 1, Len(it.ret[1].v))))

C8_WitnessBack ==
    /\ panicked
    /\ it.kind = "str"
    /\ Len(PulledBack) = Len(it.bwd) + 1

\* C9: value_of panics if and only if the argument is bound and its
\* earliest-bound value is not valid text, whatever its later values and
\* the other arguments hold; no other accessor panics.
C9_StrictValue ==
    /\ last.op = "value_of" =>
          LET m == last.recv[1]
          IN panicked <=>
                /\ Bound(m, last.name)
                /\ OccupiedVals(m.args[last.name].vals) # <<>>
                /\ ~ValidText(OccupiedVals(m.args[last.name].vals)[1])
    /\ last.op # "value_of" => ~panicked

\* value_of answered with a value although another argument of the
\* receiver holds invalid text.
C9_Witness ==
    /\ last.op = "value_of"
    /\ ~panicked
    /\ last.ret # None
    /\ \E n \in DOMAIN last.recv[1].args :
          /\ n # last.name
          /\ \E k \in 1..Len(last.recv[1].args[n].vals) :
                /\ last.recv[1].args[n].vals[k] # None
                /\ ~ValidText(last.recv[1].args[n].vals[k][1])

\* value_of panicked.
C9_WitnessPanic ==
    /\ last.op = "value_of"
    /\ panicked

\* C10: over the same value sequence, an iterator drained with next()
\* alone and one drained with next_back() alone yield the same values in
\* exactly reversed order.
C10_Reversed ==
    /\ (it.kind \in {"str", "os"} /\ it.ret # None /\ it.ended) =>
          LET fresh == values_of_os(it.recv[1], it.name)[1]
          IN /\ it.bwd = <<>> => it.fwd = Reverse(collect_rev(fresh))
             /\ it.fwd = <<>> => it.bwd = Reverse(collect(fresh))
    /\ \A n \in DOMAIN self.args :
          collect(values(self.args[n].vals)) =
              Reverse(collect_rev(values(self.args[n].vals)))

\* An iterator drained by next_back() alone that yielded two different
\* values.
C10_Witness ==
    /\ it.kind \in {"str", "os"}
    /\ it.ended
    /\ it.fwd = <<>>
    /\ Len(it.bwd) = 2
    /\ it.bwd[1] # it.bwd[2]

\* The slots of the argument the caller's iterator runs over, and the
\* indices of the occupied ones.
ItVals == it.recv[1].args[it.name].vals
ItOccupied == {k \in 1..Len(ItVals) : ItVals[k] # None}

\* No further value comes out of the iterator i, from either end.
Exhausted(i) == Iter_next(i).ret = None /\ Iter_next_back(i).ret = None

\* What C11 says of the values yielded, under any interleaving of next()
\* and next_back(): each is the value of an occupied slot; next() yields in
\* ascending and next_back() in descending slot order, the slots of next()
\* below those of next_back(); no occupied slot is passed over, none is
\* yielded twice, and a drained iterator has yielded them all.
C11_Yields ==
    /\ Len(it.fidx) = Len(it.fwd) /\ Len(it.bidx) = Len(it.bwd)
    /\ \A j \in 1..Len(it.fidx) :
          it.fidx[j] \in ItOccupied /\ it.fwd[j] = ItVals[it.fidx[j]][1]
    /\ \A j \in 1..Len(it.bidx) :
          it.bidx[j] \in ItOccupied /\ it.bwd[j] = ItVals[it.bidx[j]][1]
    /\ \A j, k \in 1..Len(it.fidx) : j < k => it.fidx[j] < it.fidx[k]
    /\ \A j, k \in 1..Len(it.bidx) : j < k => it.bidx[j] > it.bidx[k]
    /\ \A j \in 1..Len(it.fidx) : \A k \in 1..Len(it.bidx) : it.fidx[j] < it.bidx[k]
    /\ \A s \in ItOccupied :
          /\ (it.fidx # <<>> /\ s < it.fidx[Len(it.fidx)]) => \E j \in 1..Len(it.fidx) : it.fidx[j] = s
          /\ (it.bidx # <<>> /\ s > it.bidx[Len(it.bidx)]) => \E j \in 1..Len(it.bidx) : it.bidx[j] = s
    /\ it.ended =>
          ItOccupied = {it.fidx[j] : j \in 1..Len(it.fidx)} \cup {it.bidx[j] : j \in 1..Len(it.bidx)}

\* C11 as amended: under any interleaving of next() and next_back() every
\* occupied slot is yielded exactly once, in ascending order by next() and
\* in descending order by next_back(), the slots of next() below those of
\* next_back(); the iterator is exhausted whenever front == back, and
\* front == back once a call has returned none (it is exhausted with
\* front < back too, when only empty slots are left between them).
C11_Interleaved ==
    (it.kind \in {"str", "os"} /\ it.ret # None) =>
        /\ C11_Yields
        /\ it.ret[1].front = it.ret[1].back => Exhausted(it.ret[1])
        /\ it.ended => it.ret[1].front = it.ret[1].back

\* C11 as stated: the iterator is exhausted exactly when front == back.
C11_Original ==
    (it.kind \in {"str", "os"} /\ it.ret # None) =>
        /\ C11_Yields
        /\ Exhausted(it.ret[1]) <=> it.ret[1].front = it.ret[1].back

\* next() and next_back() were interleaved over three slots with an empty
\* one in the middle, and the iterator is drained.
C11_Witness ==
    /\ it.kind \in {"str", "os"}
    /\ it.ret # None
    /\ Len(ItVals) = 3 /\ ItVals[2] = None
    /\ it.fidx = <<1>> /\ it.bidx = <<3>>
    /\ it.ended

\* The occupied slots the iterator i has not consumed from its slice.
Remaining(i) == {k \in (i.lo + 1)..i.hi : i.v[k] # None}

\* C14: after any sequence of next() and next_back() calls on an Iter made
\* with front = 0 and back = the number of slots, front <= back; back - front
\* is the number of slots the slice iterator still holds, so that the slice
\* iterator returns an element whenever front < back; the upper bound of
\* size_hint() is back - front, never below zero and never below the number
\* of occupied slots still to be yielded; and once next() or next_back() has
\* returned none, both return none and leave the iterator as it is.
C14_Cursors ==
    (it.kind \in {"str", "os"} /\ it.ret # None) =>
        LET i == it.ret[1]
        IN /\ i.front <= i.back
           /\ 0 <= i.lo /\ i.lo <= i.hi /\ i.hi <= Len(i.v)
           /\ i.back - i.front = i.hi - i.lo
           /\ i.front < i.back =>
                 slice_next(i).elem # None /\ slice_next_back(i).elem # None
           /\ size_hint(i)[2][1] = i.back - i.front
           /\ size_hint(i)[2][1] >= Cardinality(Remaining(i))
           /\ it.hint # None =>
                 /\ it.hint[1] = <<0, Some(i.back - i.front)>>
                 /\ it.hint[1][2][1] >= 0
                 /\ it.hint[1][2][1] >= Cardinality(Remaining(i))
           /\ it.ended =>
                 /\ Values_next(it.kind, i) = [panic |-> FALSE, it |-> i, ret |-> None]
                 /\ Values_next_back(it.kind, i) = [panic |-> FALSE, it |-> i, ret |-> None]

\* size_hint() was taken of an iterator that next() had advanced, with an
\* empty slot and a value still to come: the upper bound is 2 for 1 value.
C14_Witness ==
    /\ it.kind \in {"str", "os"}
    /\ it.ret # None
    /\ it.fwd # <<>>
    /\ it.hint = Some(<<0, Some(2)>>)
    /\ Cardinality(Remaining(it.ret[1])) = 1

\* next() returned none, with empty slots passed over on the way, and the
\* hint taken afterwards is zero.
C14_WitnessEnded ==
    /\ it.kind \in {"str", "os"}
    /\ it.ret # None
    /\ it.ended
    /\ Len(it.fwd) + Len(it.bwd) < Len(ItVals)
    /\ it.hint = Some(<<0, Some(0)>>)

\* The store m with the two names exchanged, as keys of args and as the
\* name of the active subcommand.
OtherName(n) == CHOOSE k \in Names : k # n
Renamed(m) ==
    [m EXCEPT !.args = [k \in {OtherName(n) : n \in DOMAIN m.args} |-> m.args[OtherName(k)]],
              !.subcommand = IF @ = None THEN None
                             ELSE Some([@[1] EXCEPT !.name = OtherName(@)])]

\* Every accessor answers for the name n on m as it does for the other name
\* on the store with the names exchanged.
SameAsRenamed(m, n) ==
    LET r == Renamed(m)
        o == OtherName(n)
    IN /\ value_of(m, n) = value_of(r, o)
       /\ value_of_lossy(m, n) = value_of_lossy(r, o)
       /\ value_of_os(m, n) = value_of_os(r, o)
       /\ values_of(m, n) = values_of(r, o)
       /\ values_of_lossy(m, n) = values_of_lossy(r, o)
       /\ values_of_os(m, n) = values_of_os(r, o)
       /\ is_present(m, n) = is_present(r, o)
       /\ occurrences_of(m, n) = occurrences_of(r, o)
       /\ subcommand_matches(m, n) = subcommand_matches(r, o)

\* C13: when the active subcommand is an external subcommand x whose nested
\* store holds the trailing tokens as the values of the argument keyed "",
\* subcommand() returns (x, nested store), and values_of("") on the nested
\* store yields exactly the tokens, in order; every accessor treats "" as
\* it treats any other key.
C13_External ==
    /\ (last.op = "subcommand" /\ HasSub(last.recv[1])) =>
          last.ret = <<SubName(last.recv[1]), Some(SubStore(last.recv[1]))>>
    /\ ( /\ last.op = "subcommand" /\ HasSub(last.recv[1])
         /\ it.kind \in {"str", "os"}
         /\ it.recv = last.ret[2] /\ it.name = ""
         /\ Bound(SubStore(last.recv[1]), "") ) =>
          LET tokens == OccupiedVals(SubStore(last.recv[1]).args[""].vals)
          IN /\ it.ret # None
             /\ Len(it.fwd) <= Len(tokens)
             /\ it.fwd = SubSeq(tokens, 1, Len(it.fwd))
             /\ it.ended => it.fwd \o Reverse(it.bwd) = tokens
    /\ SameAsRenamed(self, "") /\ SameAsRenamed(self, OtherName(""))

\* subcommand() returned the nested store of an active subcommand, and
\* values_of("") on that store was drained by next(), yielding two tokens.
C13_Witness ==
    /\ last.op = "subcommand" /\ HasSub(last.recv[1])
    /\ self = SubStore(last.recv[1])
    /\ it.kind = "str"
    /\ it.recv = last.ret[2] /\ it.name = ""
    /\ Len(it.fwd) = 2 /\ it.bwd = <<>>
    /\ it.ended

\* What the iterator x (it or other) has yielded is what its own calls of
\* next() and next_back() take from the full value sequence of its argument.
YieldsItsOwn(x) ==
    (x.kind \in {"str", "os"} /\ x.ret # None) =>
        LET occ == OccupiedVals(x.recv[1].args[x.name].vals)
        IN /\ x.fwd = SubSeq(occ, 1, Len(x.fwd))
           /\ x.bwd = SubSeq(Reverse(occ), 1, Len(x.bwd))
           /\ x.ended => x.fwd \o Reverse(x.bwd) = occ

\* What is still to come out of the iterator x by next().
ToCome(x) == collect(x.ret[1])

\* The iterator x is as the accessor returned it: no call of next() or
\* next_back() has been made on it.
Untouched(x) ==
    /\ x.kind \in {"str", "os"} /\ x.ret # None
    /\ x.fwd = <<>> /\ x.bwd = <<>> /\ ~x.ended

\* An iterator not yet advanced stands at the start of the full sequence
\* of its argument, whatever has been done with any other iterator.
NewCursor(x) ==
    Untouched(x) =>
        LET vals == x.recv[1].args[x.name].vals
        IN /\ x.ret[1].front = 0 /\ x.ret[1].back = Len(vals)
           /\ x.ret[1].lo = 0 /\ x.ret[1].hi = Len(vals)
           /\ x.ret[1].v = vals
           /\ ToCome(x) = OccupiedVals(vals)

\* One step of the caller, as C12 describes it: the store stays as it is; a
\* step that is not the caller's turning from one iterator to the other
\* leaves the other iterator alone, and a plain query leaves both alone.
\* (A next() that panics has moved the cursor of it without yielding.)
C12_Step ==
    /\ matches' = matches /\ self' = self
    /\ other' = other \/ (it' = other /\ other' = it)
    /\ (last'.op # last.op \/ last'.name # last.name) => (it' = it /\ other' = other)
    /\ (panicked' /\ ~panicked) => other' = other
    /\ (~panicked' => NewCursor(it')) /\ NewCursor(other')
    /\ YieldsItsOwn(it') /\ YieldsItsOwn(other')

\* C12: no query call changes the store (args, occurrence counts, values,
\* active subcommand and usage stay as they are), and each call of an
\* all-values accessor returns a new iterator with a cursor of its own at
\* the start of the full sequence: advancing or exhausting one iterator
\* changes neither what another iterator over the same argument yields nor
\* what a later accessor call yields.
C12_Frame == [][C12_Step]_vars

\* Two iterators over the same argument, which holds a value: one was
\* drained, and the other, taken up afterwards, has yielded the value.
C12_Witness ==
    /\ it.kind \in {"str", "os"} /\ other.kind \in {"str", "os"}
    /\ it.recv = other.recv /\ it.name = other.name
    /\ it.ret # None /\ other.ret # None
    /\ other.ended /\ other.fwd # <<>>
    /\ ~it.ended /\ it.fwd = other.fwd
    /\ last.op # "none"
====
